---------------------------- MODULE Spec2Model ----------------------------
(***************************************************************************)
(* Acceptance Map (src/acceptance_map.js): encode -> tokenize -> validate. *)
(*                                                                         *)
(* Representation.                                                         *)
(*  - A JS string is a sequence of UTF-16 code units (integers): "10" is   *)
(*    <<49, 48>>.                                                          *)
(*  - A BigInt is its sequence of decimal digits, least significant first, *)
(*    without a most significant zero; 0n is <<>>.                         *)
(*  - A JS Number that is an integer is a TLA+ integer.                    *)
(*  - A call that may throw returns [thrown, message, value].              *)
(***************************************************************************)
EXTENDS Integers, Sequences, FiniteSets, TLC

VARIABLES
    state,      \* the module-level `state` object (acceptance_map.js:192-199)
    inputs,     \* DOM controls the handlers read: text fields, selects, toggles
    ui,         \* DOM elements the handlers write: pill, rule rows, flow, grid, report
    call,       \* unit harness: the function under check and its arguments;
                \* page: evaluate, while the page is as evaluate left it
    ret,        \* what the last call returned or threw; for evaluate, the local
                \* bindings its try block ended with
    tasks       \* the event loop: clipboard writes not settled yet, and the
                \* timers of copyReport in the order they were set

vars == <<state, inputs, ui, call, ret, tasks>>

-----------------------------------------------------------------------------
(* Bounds of the checked instances *)

\* longest decimal text handed to the tokenizer harness
MaxTextLen == 15
\* longest token stream handed to the range-check harness
MaxRangeLen == 4
\* largest token count of a grid handed to the adjacency harness
MaxCells == 9
\* largest token count produced by the decimal inputs of the evaluate harness
MaxTokens == 9
\* longest string handed to the text encoders
MaxStrLen == 3
\* longest text handed to the parsers
MaxParseLen == 4
\* the color indexes 1..MaxSmallIndex are handed to the colorizer
MaxSmallIndex == 17
\* most clipboard writes and restore timers of copyReport in flight at once
MaxCopies == 2
\* most blocks of a charset config handed to the table builder
MaxBlocks == 2

-----------------------------------------------------------------------------
(* Sequences and JS strings *)

Range(s) == {s[i] : i \in 1..Len(s)}

Min(a, b) == IF a <= b THEN a ELSE b

Max(S) == CHOOSE x \in S : \A y \in S : y <= x
Min2(S) == CHOOSE x \in S : \A y \in S : x <= y

\* all sequences over S of length lo..hi
SeqsOf(S, lo, hi) == UNION {[1..n -> S] : n \in lo..hi}

\* String.prototype.slice(from, to) with 0 <= from, on 0-based offsets
Slice(s, from, to) == SubSeq(s, from + 1, Min(to, Len(s)))

\* the code unit of decimal digit d, and of hex digit d (lowercase)
DigitChar(d) == 48 + d
HexChar(d) == IF d < 10 THEN 48 + d ELSE 87 + d

IsDigitChar(ch) == ch \in 48..57
IsBitChar(ch) == ch \in 48..49

\* ECMAScript WhiteSpace and LineTerminator code units (what trim() and
\* parseInt() strip)
IsWhiteSpace(ch) ==
    \/ ch \in {9, 10, 11, 12, 13, 32, 160, 5760, 8232, 8233, 8239, 8287, 12288, 65279}
    \/ ch \in 8192..8202

RECURSIVE TrimStart(_)
TrimStart(s) ==
    IF s # <<>> /\ IsWhiteSpace(Head(s)) THEN TrimStart(Tail(s)) ELSE s

RECURSIVE TrimEnd(_)
TrimEnd(s) ==
    IF s # <<>> /\ IsWhiteSpace(s[Len(s)]) THEN TrimEnd(SubSeq(s, 1, Len(s) - 1)) ELSE s

\* String.prototype.trim()
Trim(s) == TrimEnd(TrimStart(s))

-----------------------------------------------------------------------------
(* BigInt arithmetic on little-endian decimal digit sequences *)

\* n * k + c
RECURSIVE BigMulAdd(_, _, _)
BigMulAdd(n, k, c) ==
    IF n = <<>>
    THEN IF c = 0 THEN <<>> ELSE <<c % 10>> \o BigMulAdd(<<>>, k, c \div 10)
    ELSE LET t == Head(n) * k + c
         IN  <<t % 10>> \o BigMulAdd(Tail(n), k, t \div 10)

\* BigInt(t) for a text of digits in the given radix (10, or 2 for '0b' + t)
RECURSIVE BigIntOfDigits(_, _, _)
BigIntOfDigits(t, radix, acc) ==
    IF t = <<>> THEN acc
    ELSE BigIntOfDigits(Tail(t), radix, BigMulAdd(acc, radix, Head(t) - 48))

\* BigInt.prototype.toString(10)
BigToString10(n) ==
    IF n = <<>> THEN <<48>>
    ELSE [i \in 1..Len(n) |-> DigitChar(n[Len(n) + 1 - i])]

-----------------------------------------------------------------------------
(* Acceptance pipeline (i) - (v) *)

MAX_COLOR_INDEX == 16777216

segmentLength == 7

\* Math.floor(Math.sqrt(n)) for an integer n >= 0
FloorSqrt(n) == CHOOSE r \in 0..n : r * r <= n /\ (r + 1) * (r + 1) > n

\* mutant: the square test accepts any count the floored root does not exceed
isPerfectSquareLoose(n) ==
    IF n <= 0 THEN FALSE
    ELSE LET r == FloorSqrt(n) IN r * r <= n

isPerfectSquare(n) ==
    IF n <= 0 THEN FALSE
    ELSE LET r == FloorSqrt(n) IN r * r = n

\* parseInt(seg, 10): leading white space, an optional sign, then the longest
\* run of digits; NaN when that run is empty
RECURSIVE DigitPrefixLen(_)
DigitPrefixLen(s) ==
    IF s # <<>> /\ IsDigitChar(Head(s)) THEN 1 + DigitPrefixLen(Tail(s)) ELSE 0

RECURSIVE DecimalValue(_, _)
DecimalValue(s, acc) ==
    IF s = <<>> THEN acc ELSE DecimalValue(Tail(s), acc * 10 + (Head(s) - 48))

parseInt10(seg) ==
    LET t == TrimStart(seg)
        signed == t # <<>> /\ Head(t) \in {43, 45}
        body == IF signed THEN Tail(t) ELSE t
        n == DigitPrefixLen(body)
        mag == DecimalValue(SubSeq(body, 1, n), 0)
    IN  IF n = 0 THEN [nan |-> TRUE, v |-> 0]
        ELSE [nan |-> FALSE, v |-> IF signed /\ Head(t) = 45 THEN 0 - mag ELSE mag]

\* the for loop of tokenizeDecimal7 from offset i on
RECURSIVE tokenizeFrom(_, _, _)
tokenizeFrom(decimalString, i, indexes) ==
    IF ~(i < Len(decimalString)) THEN indexes
    ELSE LET seg == Slice(decimalString, i, i + segmentLength)
             p == parseInt10(seg)
         IN  tokenizeFrom(decimalString, i + segmentLength,
                          IF ~p.nan THEN Append(indexes, p.v) ELSE indexes)

\* mutant: the loop stops before a final window shorter than segmentLength
RECURSIVE tokenizeFullWindows(_, _, _)
tokenizeFullWindows(decimalString, i, indexes) ==
    IF ~(i + segmentLength <= Len(decimalString)) THEN indexes
    ELSE tokenizeFullWindows(decimalString, i + segmentLength,
            Append(indexes, parseInt10(Slice(decimalString, i, i + segmentLength)).v))

tokenizeDecimal7FullOnly(decimalString) == tokenizeFullWindows(decimalString, 0, <<>>)

\* mutant: the windows are one digit wider
RECURSIVE tokenizeWideWindows(_, _, _)
tokenizeWideWindows(decimalString, i, indexes) ==
    IF ~(i < Len(decimalString)) THEN indexes
    ELSE tokenizeWideWindows(decimalString, i + segmentLength + 1,
            Append(indexes, parseInt10(Slice(decimalString, i, i + segmentLength + 1)).v))

tokenizeDecimal7Wide(decimalString) == tokenizeWideWindows(decimalString, 0, <<>>)

tokenizeDecimal7(decimalString) == tokenizeFrom(decimalString, 0, <<>>)

\* mutant: the lower bound is 0
isBadIndexFromZero(v) == ~(v >= 0 /\ v <= MAX_COLOR_INDEX)

\* the test of line 90 on one token
isBadIndex(v) == ~(v >= 1 /\ v <= MAX_COLOR_INDEX)

\* bad[] holds {i, v} with the 0-based index i
areValidColorIndexes(indexes) ==
    LET keep(k) == isBadIndex(indexes[k])
        picked == SelectSeq([k \in 1..Len(indexes) |-> k], keep)
        bad == [j \in 1..Len(picked) |-> [i |-> picked[j] - 1, v |-> indexes[picked[j]]]]
    IN  [ok |-> Len(bad) = 0, bad |-> bad]

\* Number.prototype.toString(16) of an integer
RECURSIVE ToString16(_)
ToString16(v) ==
    IF v < 0 THEN <<45>> \o ToString16(0 - v)
    ELSE IF v < 16 THEN <<HexChar(v)>>
    ELSE Append(ToString16(v \div 16), HexChar(v % 16))

\* String.prototype.padStart(n, "0")
PadStart0(s, n) == [i \in 1..(n - Len(s)) |-> 48] \o s

\* mutant: the index is not shifted to 0-based
colorIndexToHexNoShift(idx) == <<35>> \o PadStart0(ToString16(idx), 6)

colorIndexToHex(idx) ==
    LET v == idx - 1
    IN  <<35>> \o PadStart0(ToString16(v), 6)

buildHexSequence(indexes) == [i \in 1..Len(indexes) |-> colorIndexToHex(indexes[i])]

\* Array.from(set).sort((a, b) => a - b)
RECURSIVE SortedSeq(_)
SortedSeq(S) ==
    IF S = {} THEN <<>>
    ELSE LET x == CHOOSE y \in S : \A z \in S : y <= z
         IN  <<x>> \o SortedSeq(S \ {x})

\* mutant: an equal pair marks only the current cell
conflictsAtCurrentOnly(indexes, wrap, m, r, c) ==
    LET at(rr, cc) == indexes[rr * m + cc + 1]
        cur == at(r, c)
        right ==
            IF c + 1 < m THEN cur = at(r, c + 1)
            ELSE wrap /\ m > 1 /\ cur = at(r, 0)
        down ==
            IF r + 1 < m THEN cur = at(r + 1, c)
            ELSE wrap /\ m > 1 /\ cur = at(0, c)
    IN  IF right \/ down THEN {r * m + c} ELSE {}

\* mutant: the last column and the last row have no neighbour across the edge
conflictsAtNoWrap(indexes, wrap, m, r, c) ==
    LET at(rr, cc) == indexes[rr * m + cc + 1]
        cell(rr, cc) == rr * m + cc
        cur == at(r, c)
        right ==
            IF c + 1 < m /\ cur = at(r, c + 1) THEN {cell(r, c), cell(r, c + 1)} ELSE {}
        down ==
            IF r + 1 < m /\ cur = at(r + 1, c) THEN {cell(r, c), cell(r + 1, c)} ELSE {}
    IN  right \cup down

\* mutant: with wrap the last column and row wrap around on a 1 x 1 grid too
conflictsAtWrapAlways(indexes, wrap, m, r, c) ==
    LET at(rr, cc) == indexes[rr * m + cc + 1]
        cell(rr, cc) == rr * m + cc
        cur == at(r, c)
        right ==
            IF c + 1 < m
            THEN IF cur = at(r, c + 1) THEN {cell(r, c), cell(r, c + 1)} ELSE {}
            ELSE IF wrap /\ cur = at(r, 0) THEN {cell(r, c), cell(r, 0)} ELSE {}
        down ==
            IF r + 1 < m
            THEN IF cur = at(r + 1, c) THEN {cell(r, c), cell(r + 1, c)} ELSE {}
            ELSE IF wrap /\ cur = at(0, c) THEN {cell(r, c), cell(0, c)} ELSE {}
    IN  right \cup down

\* the cells one iteration (r, c) of the nested loops adds to `conflicts`
conflictsAt(indexes, wrap, m, r, c) ==
    LET at(rr, cc) == indexes[rr * m + cc + 1]
        cell(rr, cc) == rr * m + cc
        cur == at(r, c)
        right ==
            IF c + 1 < m
            THEN IF cur = at(r, c + 1) THEN {cell(r, c), cell(r, c + 1)} ELSE {}
            ELSE IF wrap /\ m > 1
                 THEN IF cur = at(r, 0) THEN {cell(r, c), cell(r, 0)} ELSE {}
                 ELSE {}
        down ==
            IF r + 1 < m
            THEN IF cur = at(r + 1, c) THEN {cell(r, c), cell(r + 1, c)} ELSE {}
            ELSE IF wrap /\ m > 1
                 THEN IF cur = at(0, c) THEN {cell(r, c), cell(0, c)} ELSE {}
                 ELSE {}
    IN  right \cup down

adjacencyConflicts(indexes, wrap) ==
    LET n == Len(indexes)
    IN  IF ~isPerfectSquare(n)
        THEN [ok |-> FALSE, m |-> 0, conflicts |-> <<>>,
              reason |-> <<"Tile count is not a perfect square.">>]
        ELSE LET m == FloorSqrt(n)
                 conflicts == UNION {conflictsAt(indexes, wrap, m, r, c) :
                                        r \in 0..(m - 1), c \in 0..(m - 1)}
                 size == Cardinality(conflicts)
             IN  [ok |-> size = 0, m |-> m, conflicts |-> SortedSeq(conflicts),
                  reason |-> IF size = 0 THEN <<"No adjacency conflicts.">>
                             ELSE <<"Found ", size, " conflict cell(s).">>]

-----------------------------------------------------------------------------
(* Charset *)

\* block ranges [low, high] of charsetConfigLite, in declaration order
charsetConfigLite ==
    << <<32, 127>>, <<128, 255>>, <<8192, 8303>>, <<8352, 8399>>,
       <<8704, 8959>>, <<8592, 8703>> >>

\* block ranges [low, high] of charsetConfigFull, in declaration order
charsetConfigFull ==
    << <<32, 127>>, <<128, 255>>, <<256, 383>>, <<384, 591>>, <<880, 1023>>,
       <<1024, 1279>>, <<1536, 1791>>, <<1424, 1535>>, <<2304, 2431>>,
       <<8704, 8959>>, <<10752, 11007>>, <<8960, 9215>>, <<8592, 8703>>,
       <<19968, 40959>>, <<44032, 55215>>, <<12352, 12447>>, <<12448, 12543>>,
       <<12544, 12591>>, <<8352, 8399>>, <<8192, 8303>> >>

\* mutant: add appends also a member
setAddAlways(charset, ch) == Append(charset, ch)

\* charset.add(ch) on a Set kept in insertion order
setAdd(charset, ch) ==
    IF ch \in Range(charset) THEN charset ELSE Append(charset, ch)

\* the inner loop over one block, `seen` being the Set's members before it:
\* String.fromCharCode(cp) is the code unit cp mod 2^16 and never throws; a code
\* unit joins the Set the first time it is added (candidates past the 65536th
\* repeat earlier ones)
addBlockSeen(charset, block, seen) ==
    LET cand == [i \in 1..Min(block[2] - block[1] + 1, 65536) |->
                    (block[1] + i - 1) % 65536]
        fresh(ch) == ch \notin seen
    IN  charset \o SelectSeq(cand, fresh)

addBlock(charset, block) == addBlockSeen(charset, block, Range(charset))

RECURSIVE addBlocks(_, _)
addBlocks(charset, config) ==
    IF config = <<>> THEN charset
    ELSE addBlocks(addBlock(charset, Head(config)), Tail(config))

generateCharsetFromConfig(config) ==
    setAdd(setAdd(addBlocks(<<>>, config), 10), 9)

\* the Map of buildCharIndexMap as the m.set(key, value) calls that built it, in
\* order; a later set of the same key replaces the earlier value
buildCharIndexMap(charsetArr) ==
    <<>> \o [i \in 1..Len(charsetArr) |-> <<charsetArr[i], i - 1>>]

\* charToIdx.get(ch) !== undefined, and charToIdx.get(ch) when it is
mapHas(map, ch) == \E i \in 1..Len(map) : map[i][1] = ch
mapGet(map, ch) == map[Max({i \in 1..Len(map) : map[i][1] = ch})][2]

-----------------------------------------------------------------------------
(* Encoding state -> base10 integer *)

Thrown(text, arg) == [thrown |-> TRUE, message |-> <<text, arg>>, value |-> <<>>]
Returned(v) == [thrown |-> FALSE, message |-> <<"", -1>>, value |-> v]

DecimalFormatMsg == "Decimal input must contain only digits 0-9."
BinaryFormatMsg == "Binary input must contain only 0 and 1."
EmptyInputMsg == "String input cannot be empty."
NotInCharsetMsg == "Character not in charset: "

\* /^[0-9]+$/.test(t)
matchesDigits(t) == t # <<>> /\ \A i \in 1..Len(t) : IsDigitChar(t[i])

\* /^[01]+$/.test(t)
matchesBits(t) == t # <<>> /\ \A i \in 1..Len(t) : IsBitChar(t[i])

\* BigInt(t) of a decimal literal: its digits without the leading zeros
RECURSIVE StripLeadingZeros(_)
StripLeadingZeros(t) ==
    IF t # <<>> /\ Head(t) = 48 THEN StripLeadingZeros(Tail(t)) ELSE t

BigIntOfDecimal(t) ==
    LET d == StripLeadingZeros(t)
    IN  [i \in 1..Len(d) |-> d[Len(d) + 1 - i] - 48]

\* mutant: the pattern is tested on the untrimmed input
parseDecimalBigIntNoTrim(s) ==
    IF ~matchesDigits(s) THEN Thrown(DecimalFormatMsg, -1)
    ELSE Returned(BigIntOfDecimal(s))

parseDecimalBigInt(s) ==
    LET t == Trim(s)
    IN  IF ~matchesDigits(t) THEN Thrown(DecimalFormatMsg, -1)
        ELSE Returned(BigIntOfDecimal(t))

parseBinaryToBigInt(s) ==
    LET t == Trim(s)
    IN  IF ~matchesBits(t) THEN Thrown(BinaryFormatMsg, -1)
        ELSE Returned(BigIntOfDigits(t, 2, <<>>))

\* mutant: the classic digit is idx + 1
RECURSIVE classicLoopShifted(_, _, _, _)
classicLoopShifted(rest, k, charToIdx, id) ==
    IF rest = <<>> THEN Returned(id)
    ELSE LET ch == Head(rest)
         IN  IF ~mapHas(charToIdx, ch) THEN Thrown(NotInCharsetMsg, ch)
             ELSE classicLoopShifted(Tail(rest), k, charToIdx,
                                     BigMulAdd(id, k, mapGet(charToIdx, ch) + 1))

\* the for-of loop of encodeStringClassic over the rest of the string
RECURSIVE classicLoop(_, _, _, _)
classicLoop(rest, k, charToIdx, id) ==
    IF rest = <<>> THEN Returned(id)
    ELSE LET ch == Head(rest)
         IN  IF ~mapHas(charToIdx, ch) THEN Thrown(NotInCharsetMsg, ch)
             ELSE classicLoop(Tail(rest), k, charToIdx,
                              BigMulAdd(id, k, mapGet(charToIdx, ch)))

\* mutant: only the empty string is rejected as empty
encodeStringClassicNoTrim(str, charsetArr, charToIdx) ==
    IF str = <<>> THEN Thrown(EmptyInputMsg, -1)
    ELSE classicLoop(str, Len(charsetArr), charToIdx, <<>>)

encodeStringClassic(str, charsetArr, charToIdx) ==
    IF str = <<>> \/ Trim(str) = <<>> THEN Thrown(EmptyInputMsg, -1)
    ELSE classicLoop(str, Len(charsetArr), charToIdx, <<>>)

\* mutant: the bijective digit is idx, not idx + 1
RECURSIVE bijectiveLoopNoShift(_, _, _, _)
bijectiveLoopNoShift(rest, k, charToIdx, id) ==
    IF rest = <<>> THEN Returned(id)
    ELSE LET ch == Head(rest)
         IN  IF ~mapHas(charToIdx, ch) THEN Thrown(NotInCharsetMsg, ch)
             ELSE bijectiveLoopNoShift(Tail(rest), k, charToIdx,
                                       BigMulAdd(id, k, mapGet(charToIdx, ch)))

\* the for-of loop of encodeStringBijective over the rest of the string
RECURSIVE bijectiveLoop(_, _, _, _)
bijectiveLoop(rest, k, charToIdx, id) ==
    IF rest = <<>> THEN Returned(id)
    ELSE LET ch == Head(rest)
         IN  IF ~mapHas(charToIdx, ch) THEN Thrown(NotInCharsetMsg, ch)
             ELSE LET digit == mapGet(charToIdx, ch) + 1
                  IN  bijectiveLoop(Tail(rest), k, charToIdx, BigMulAdd(id, k, digit))

encodeStringBijective(str, charsetArr, charToIdx) ==
    IF str = <<>> \/ Trim(str) = <<>> THEN Thrown(EmptyInputMsg, -1)
    ELSE bijectiveLoop(str, Len(charsetArr), charToIdx, <<>>)

-----------------------------------------------------------------------------
(* UI wiring: text contents are tagged tuples *)

\* the text '—'
Dash == <<"dash">>

\* the content an element has in the page's markup, before any handler wrote it
Markup == <<"markup">>

NotEvaluatedReason == <<"Not evaluated (failed earlier rule).">>

\* the key of the config ensureCharsetReady picks for a profile value
configKey(profile) == IF profile = "full" THEN "full" ELSE "lite"

charsetLite == generateCharsetFromConfig(charsetConfigLite)
charsetFull == generateCharsetFromConfig(charsetConfigFull)

charToIdxLite == buildCharIndexMap(charsetLite)
charToIdxFull == buildCharIndexMap(charsetFull)

\* the array and the Map a key in state.charsetArr and state.charToIdx stands for:
\* the state keeps the key of the config its table was built from
charsetOf(key) == IF key = "full" THEN charsetFull ELSE charsetLite
charToIdxOf(key) == IF key = "full" THEN charToIdxFull ELSE charToIdxLite

\* mutant: the table is built for the profile recorded in `state`, not for the
\* selected one
ensureCharsetReadyRecorded(st, in) ==
    LET profile == in.charsetProfile
        cfg == configKey(st.charsetProfile)
    IN  [st EXCEPT !.charsetProfile = profile, !.charsetArr = cfg, !.charToIdx = cfg]

\* what ensureCharsetReady leaves in `state`
ensureCharsetReady(st, in) ==
    LET profile == in.charsetProfile
        cfg == configKey(profile)
    IN  [st EXCEPT !.charsetProfile = profile, !.charsetArr = cfg, !.charToIdx = cfg]

\* `state` when step (i) of evaluate ends, by return or by throw
stateAfterEncode(st, in) ==
    IF st.inputMode = "decimal" \/ st.inputMode = "binary" THEN st
    ELSE [ensureCharsetReady(st, in) EXCEPT !.encodingMode = in.encodingMode]

\* step (i) of evaluate: N, or the exception thrown
encodeInput(st, in) ==
    IF st.inputMode = "decimal" THEN parseDecimalBigInt(in.decimal)
    ELSE IF st.inputMode = "binary" THEN parseBinaryToBigInt(in.binary)
    ELSE LET st1 == ensureCharsetReady(st, in)
             charsetArr == charsetOf(st1.charsetArr)
             charToIdx == charToIdxOf(st1.charToIdx)
         IN  IF in.encodingMode = "bijective"
             THEN encodeStringBijective(in.string, charsetArr, charToIdx)
             ELSE encodeStringClassic(in.string, charsetArr, charToIdx)

\* line 273
evaluateHex(tokens, range) ==
    IF range.ok THEN buildHexSequence(tokens) ELSE [i \in 1..Len(tokens) |-> Dash]

\* line 277
evaluateM(tokens, squareOk) == IF squareOk THEN FloorSqrt(Len(tokens)) ELSE 0

\* mutant: the adjacency check runs whenever the shape check passed
evaluateAdjShapeOnly(tokens, wrap, squareOk, range, m) ==
    IF squareOk THEN adjacencyConflicts(tokens, wrap)
    ELSE [ok |-> FALSE, m |-> m, conflicts |-> <<>>, reason |-> NotEvaluatedReason]

\* line 281
evaluateAdj(tokens, wrap, squareOk, range, m) ==
    IF squareOk /\ range.ok THEN adjacencyConflicts(tokens, wrap)
    ELSE [ok |-> FALSE, m |-> m, conflicts |-> <<>>, reason |-> NotEvaluatedReason]

\* line 299
evaluateAccepted(squareOk, range, adj) == squareOk /\ range.ok /\ adj.ok

\* mutant: the range failure is reported before the shape failure
rejectReasonRangeFirst(squareOk, range) ==
    IF ~range.ok THEN "One or more tokens out of range"
    ELSE IF ~squareOk THEN "Not a perfect square tile count"
    ELSE "Adjacent tile conflict(s)"

\* lines 302-304
rejectReason(squareOk, range) ==
    IF ~squareOk THEN "Not a perfect square tile count"
    ELSE IF ~range.ok THEN "One or more tokens out of range"
    ELSE "Adjacent tile conflict(s)"

\* the local bindings of evaluate's try block, steps (ii) - (v), from N and wrap
evaluateLocals(N, wrap) ==
    LET base10 == BigToString10(N)
        tokens == tokenizeDecimal7(base10)
        range == areValidColorIndexes(tokens)
        hex == evaluateHex(tokens, range)
        squareOk == isPerfectSquare(Len(tokens))
        m == evaluateM(tokens, squareOk)
        adj == evaluateAdj(tokens, wrap, squareOk, range, m)
        accepted == evaluateAccepted(squareOk, range, adj)
    IN  [base10 |-> base10, tokens |-> tokens, range |-> range, hex |-> hex,
         squareOk |-> squareOk, m |-> m, wrap |-> wrap, adj |-> adj,
         accepted |-> accepted]

\* the fields buildReport prints
buildReport(x) ==
    <<"report",
      [inputMode |-> x.inputMode, base10 |-> x.base10, tokenCount |-> x.tokenCount,
       rangeOk |-> x.range.ok,
       badTokens |-> IF x.range.ok THEN <<>> ELSE Slice(x.range.bad, 0, 10),
       badMore |-> IF ~x.range.ok /\ Len(x.range.bad) > 10
                   THEN Len(x.range.bad) - 10 ELSE 0,
       square |-> IF x.squareOk THEN <<"OK", x.m, x.m>> ELSE <<"FAIL">>,
       adjacency |-> IF x.squareOk /\ x.range.ok
                     THEN (IF x.adjacency.ok THEN "OK" ELSE "FAIL") ELSE "N/A",
       wrap |-> IF x.wrap THEN "ON" ELSE "OFF",
       final |-> IF x.accepted THEN "ACCEPT" ELSE "REJECT",
       tokens |-> x.tokens]>>

\* what renderGrid leaves in #tile-grid and #grid-hint
renderGrid(g, in) ==
    IF ~g.squareOk \/ ~g.rangeOk \/ g.m = 0
    THEN [cols |-> 1,
          hint |-> IF Len(g.tokens) = 0 THEN <<"Evaluate to render a grid.">>
                   ELSE IF ~g.squareOk
                        THEN <<"Cannot render: token count is not a perfect square.">>
                   ELSE IF ~g.rangeOk THEN <<"Cannot render: token(s) out of range.">>
                   ELSE <<"Cannot render.">>,
          tiles |-> <<>>]
    ELSE [cols |-> g.m,
          hint |-> <<"tiles", Len(g.tokens), g.m, g.m>>,
          tiles |-> [k \in 1..Len(g.tokens) |->
                        [backgroundColor |-> g.hex[k],
                         isConflict |-> in.highlight /\ (k - 1) \in g.conflicts,
                         label |-> IF in.labels
                                   THEN <<(k - 1) \div g.m, (k - 1) % g.m, g.hex[k]>>
                                   ELSE <<>>]]]

\* setAcceptPill(kind, text, reason) on the ui record
setAcceptPill(u, kind, text, reason) ==
    [u EXCEPT !.pill = [kind |-> kind, text |-> text], !.reason = reason]

\* the DOM after the try block of evaluate ran to its end
uiAfterVerdict(u, st, in, x) ==
    LET n == Len(x.tokens)
        both == x.squareOk /\ x.range.ok
        u1 == [u EXCEPT
                 !.ruleSquare = IF x.squareOk THEN <<"OK", n, x.m, x.m>> ELSE <<"FAIL", n>>,
                 !.dotSquare = IF x.squareOk THEN "good" ELSE "bad",
                 !.ruleRange = IF x.range.ok THEN <<"OK">>
                               ELSE <<"FAIL", Len(x.range.bad), x.range.bad[1].i,
                                      x.range.bad[1].v>>,
                 !.dotRange = IF x.range.ok THEN "good" ELSE "bad",
                 !.ruleAdj = IF both
                             THEN (IF x.adj.ok THEN <<"OK">>
                                   ELSE <<"FAIL", Len(x.adj.conflicts)>>)
                             ELSE Dash,
                 !.dotAdj = IF both THEN (IF x.adj.ok THEN "good" ELSE "bad") ELSE "warn"]
        u2 == IF x.accepted THEN setAcceptPill(u1, "good", "ACCEPT", <<"All rules satisfied", -1>>)
              ELSE setAcceptPill(u1, "bad", "REJECT", <<rejectReason(x.squareOk, x.range), -1>>)
    IN  [u2 EXCEPT
           !.outBase10 = <<"text", x.base10>>,
           !.outTokens = IF n # 0 THEN <<"lines", x.tokens>> ELSE Dash,
           !.outHex = IF x.range.ok /\ n # 0 THEN <<"lines", x.hex>> ELSE Dash,
           !.outGrid = IF x.squareOk THEN <<"tiles", n, x.m, x.m>> ELSE Dash,
           !.outAdj = IF both THEN <<"text", x.adj.reason>> ELSE Dash,
           !.grid = renderGrid([tokens |-> x.tokens, hex |-> x.hex, m |-> x.m,
                                squareOk |-> x.squareOk, rangeOk |-> x.range.ok,
                                conflicts |-> Range(x.adj.conflicts)], in),
           !.report = buildReport([inputMode |-> st.inputMode, base10 |-> x.base10,
                                   tokenCount |-> n, tokens |-> x.tokens,
                                   range |-> x.range, squareOk |-> x.squareOk,
                                   m |-> x.m, wrap |-> x.wrap, adjacency |-> x.adj,
                                   accepted |-> x.accepted])]

\* mutant: the catch block leaves the rule rows and their dots as they are
uiAfterCatchKeepRules(u, in, err) ==
    LET u1 == setAcceptPill(u, "warn", "Error", err.message)
    IN  [u1 EXCEPT
           !.report = <<"error", err.message>>,
           !.grid = renderGrid([tokens |-> <<>>, hex |-> <<>>, m |-> 0,
                                squareOk |-> FALSE, rangeOk |-> FALSE,
                                conflicts |-> {}], in)]

\* the DOM after the catch block of evaluate
uiAfterCatch(u, in, err) ==
    LET u1 == setAcceptPill(u, "warn", "Error", err.message)
    IN  [u1 EXCEPT
           !.report = <<"error", err.message>>,
           !.dotSquare = "warn", !.dotRange = "warn", !.dotAdj = "warn",
           !.ruleSquare = Dash, !.ruleRange = Dash, !.ruleAdj = Dash,
           !.grid = renderGrid([tokens |-> <<>>, hex |-> <<>>, m |-> 0,
                                squareOk |-> FALSE, rangeOk |-> FALSE,
                                conflicts |-> {}], in)]

\* evaluate() on the state st, the controls in and the DOM u: what it leaves in
\* `state` and in the DOM, and how it ended
evaluate(st, in, u) ==
    LET N == encodeInput(st, in)
        st1 == stateAfterEncode(st, in)
    IN  IF N.thrown
        THEN [ui |-> uiAfterCatch(u, in, N),
              state |-> [st1 EXCEPT !.lastReport = <<"error", N.message>>],
              ret |-> <<"thrown", N.message>>]
        ELSE LET x == evaluateLocals(N.value, in.wrap)
                 u1 == uiAfterVerdict(u, st1, in, x)
             IN  [ui |-> u1,
                  state |-> [st1 EXCEPT !.lastReport = u1.report],
                  ret |-> <<"returned", x>>]

\* the click on #btn-evaluate, or Enter in the decimal or binary field
Evaluate ==
    \E r \in {evaluate(state, inputs, ui)} :
        /\ ui' = r.ui
        /\ state' = r.state
        /\ ret' = r.ret
        /\ call' = [fn |-> "evaluate"]
        /\ UNCHANGED <<inputs, tasks>>

-----------------------------------------------------------------------------
(* The page after DOMContentLoaded *)

Pending == <<"pending">>

BootState ==
    [inputMode |-> "decimal", charsetProfile |-> "lite", encodingMode |-> "classic",
     charsetArr |-> "null", charToIdx |-> "null", lastReport |-> <<"">>]

BootUi ==
    [pill |-> [kind |-> "warn", text |-> "Not evaluated"],
     reason |-> <<"Enter a state and click Evaluate.", -1>>,
     ruleSquare |-> Markup, ruleRange |-> Markup, ruleAdj |-> Markup,
     dotSquare |-> "markup", dotRange |-> "markup", dotAdj |-> "markup",
     outBase10 |-> Markup, outTokens |-> Markup, outHex |-> Markup,
     outGrid |-> Markup, outAdj |-> Markup,
     grid |-> [cols |-> 0, hint |-> Markup, tiles |-> <<>>],
     report |-> Markup]

NoInputs ==
    [decimal |-> <<>>, binary |-> <<>>, string |-> <<>>, charsetProfile |-> "lite",
     encodingMode |-> "classic", wrap |-> FALSE, labels |-> TRUE, highlight |-> TRUE]

NoCall == [fn |-> "none"]

NoTasks == [writes |-> 0, timers |-> <<>>]

\* the page is idle while a unit harness calls one function
PageIdle == state = BootState /\ inputs = NoInputs /\ ui = BootUi /\ tasks = NoTasks
PageUnchanged == UNCHANGED <<state, inputs, ui, tasks>>

-----------------------------------------------------------------------------
(* Harness: one evaluate() on a page whose controls hold the drawn inputs *)

RECURSIVE Flatten(_)
Flatten(ss) == IF ss = <<>> THEN <<>> ELSE Head(ss) \o Flatten(Tail(ss))

\* the 7-digit window of a token value below 10
Window7(v) == <<48, 48, 48, 48, 48, 48, 48 + v>>

\* decimal texts of n windows: a leading "1", then n - 1 full windows of the
\* values 1 and 2, the second and the last window also of the value 0
StreamTexts(n) ==
    IF n = 1 THEN {<<49>>}
    ELSE IF n = 2 THEN {<<49>> \o Window7(v) : v \in 0..2}
    ELSE {<<49>> \o Window7(v) \o Flatten([k \in 1..(n - 3) |-> Window7(mid[k])])
              \o Window7(w) :
            v \in 0..2, w \in 0..2, mid \in [1..(n - 3) -> 1..2]}

\* texts over '0', '1', '7', ' ', 'a' for the parsers
ParseTexts(maxLen) == SeqsOf({48, 49, 55, 32, 97}, 0, maxLen)

\* "9999999", "99999990000000", "99999999999999" and "1234567"
LargeTokenTexts ==
    {<<57, 57, 57, 57, 57, 57, 57>>,
     <<57, 57, 57, 57, 57, 57, 57>> \o Window7(0),
     <<57, 57, 57, 57, 57, 57, 57, 57, 57, 57, 57, 57, 57, 57>>,
     <<49, 50, 51, 52, 53, 54, 55>>}

DecimalTexts(maxLen, maxTokens) ==
    ParseTexts(maxLen) \cup UNION {StreamTexts(n) : n \in 1..maxTokens}
        \cup LargeTokenTexts

\* "a", "ab", "b~", " ", "", " a", "a\n", "a" U+20AC, U+0100, "a" U+4E00
StringTexts ==
    {<<97>>, <<97, 98>>, <<98, 126>>, <<32>>, <<>>, <<32, 97>>, <<97, 10>>,
     <<97, 8364>>, <<256>>, <<97, 19968>>}

InitEval ==
    /\ \E mode \in {"decimal", "binary", "string"} :
          /\ state = [BootState EXCEPT !.inputMode = mode]
          /\ \E wrap \in BOOLEAN :
                \/ /\ mode = "decimal"
                   /\ \E t \in DecimalTexts(MaxParseLen, MaxTokens) :
                         inputs = [NoInputs EXCEPT !.decimal = t, !.wrap = wrap]
                \/ /\ mode = "binary"
                   /\ \E t \in ParseTexts(MaxParseLen) :
                         inputs = [NoInputs EXCEPT !.binary = t, !.wrap = wrap]
                \/ /\ mode = "string"
                   /\ \E t \in StringTexts, p \in {"lite", "full"},
                         e \in {"classic", "bijective"} :
                         inputs = [NoInputs EXCEPT !.string = t, !.wrap = wrap,
                                                   !.charsetProfile = p,
                                                   !.encodingMode = e]
    /\ ui = BootUi
    /\ call = NoCall
    /\ ret = Pending
    /\ tasks = NoTasks

NextEval == Evaluate

SpecEval == InitEval /\ [][NextEval]_vars

-----------------------------------------------------------------------------
(* The page: what the user does to it and the handlers that run *)

\* texts typed into #decimal-input: "", "1", "0", "10000001" (two tokens) and
\* "1000000100000010000002" (a 2 x 2 grid with equal neighbours)
PageDecimals ==
    {<<>>, <<49>>, <<48>>, <<49>> \o Window7(1),
     <<49>> \o Window7(1) \o Window7(1) \o Window7(2)}

\* texts typed into #binary-input: "" and "1"
PageBinaries == {<<>>, <<49>>}

\* texts typed into #string-input: "" and U+0100, a symbol of the full table only
PageStrings == {<<>>, <<256>>}

\* typing has no handler but Enter, which is Evaluate
TypeDecimal ==
    /\ \E t \in PageDecimals \ {inputs.decimal} : inputs' = [inputs EXCEPT !.decimal = t]
    /\ call' = NoCall
    /\ UNCHANGED <<state, ui, ret, tasks>>

TypeBinary ==
    /\ \E t \in PageBinaries \ {inputs.binary} : inputs' = [inputs EXCEPT !.binary = t]
    /\ call' = NoCall
    /\ UNCHANGED <<state, ui, ret, tasks>>

TypeString ==
    /\ \E t \in PageStrings \ {inputs.string} : inputs' = [inputs EXCEPT !.string = t]
    /\ call' = NoCall
    /\ UNCHANGED <<state, ui, ret, tasks>>

\* the click on a .seg__btn: setInputMode(b.dataset.inputmode)
SetInputMode ==
    /\ \E mode \in {"decimal", "binary", "string"} \ {state.inputMode} :
          state' = [state EXCEPT !.inputMode = mode]
    /\ call' = NoCall
    /\ UNCHANGED <<inputs, ui, ret, tasks>>

\* the change of #charset-profile and its listener
ChangeCharsetProfile ==
    /\ \E p \in {"lite", "full"} \ {inputs.charsetProfile} :
          inputs' = [inputs EXCEPT !.charsetProfile = p]
    /\ state' = [state EXCEPT !.charsetArr = "null", !.charToIdx = "null"]
    /\ call' = NoCall
    /\ UNCHANGED <<ui, ret, tasks>>

\* the change of #encoding-mode, which has no listener
ChangeEncodingMode ==
    /\ \E e \in {"classic", "bijective"} \ {inputs.encodingMode} :
          inputs' = [inputs EXCEPT !.encodingMode = e]
    /\ call' = NoCall
    /\ UNCHANGED <<state, ui, ret, tasks>>

\* the change of #toggle-wrap, whose listener is evaluate
ToggleWrap ==
    /\ inputs' = [inputs EXCEPT !.wrap = ~@]
    /\ \E r \in {evaluate(state, inputs', ui)} :
          ui' = r.ui /\ state' = r.state /\ ret' = r.ret
    /\ call' = [fn |-> "evaluate"]
    /\ UNCHANGED tasks

\* the change of #toggle-labels, whose listener is evaluate
ToggleLabels ==
    /\ inputs' = [inputs EXCEPT !.labels = ~@]
    /\ \E r \in {evaluate(state, inputs', ui)} :
          ui' = r.ui /\ state' = r.state /\ ret' = r.ret
    /\ call' = [fn |-> "evaluate"]
    /\ UNCHANGED tasks

\* the change of #toggle-highlight, whose listener is evaluate
ToggleHighlight ==
    /\ inputs' = [inputs EXCEPT !.highlight = ~@]
    /\ \E r \in {evaluate(state, inputs', ui)} :
          ui' = r.ui /\ state' = r.state /\ ret' = r.ret
    /\ call' = [fn |-> "evaluate"]
    /\ UNCHANGED tasks

CopiedReason == <<"Report copied to clipboard.", -1>>

\* the click on #btn-copy: copyReport() up to the call of writeText. Once an
\* evaluation has run, state.lastReport is not empty. Before that the text is
\* the markup of #report, which the repository does not hold: that click is
\* left out, and so is the copyReport that returns early and changes nothing.
CopyReport ==
    /\ state.lastReport # <<"">>
    /\ tasks.writes + Len(tasks.timers) < MaxCopies
    /\ tasks' = [tasks EXCEPT !.writes = @ + 1]
    /\ UNCHANGED <<state, inputs, ui, call, ret>>

\* a writeText promise is fulfilled: the then callback of copyReport
ClipboardWritten ==
    /\ tasks.writes > 0
    /\ ui' = [ui EXCEPT !.reason = CopiedReason]
    /\ tasks' = [writes |-> tasks.writes - 1, timers |-> Append(tasks.timers, ui.reason)]
    /\ call' = NoCall
    /\ UNCHANGED <<state, inputs, ret>>

\* a writeText promise is rejected: the catch callback of copyReport, which
\* copies through a textarea it adds and removes
ClipboardRefused ==
    /\ tasks.writes > 0
    /\ tasks' = [tasks EXCEPT !.writes = @ - 1]
    /\ UNCHANGED <<state, inputs, ui, call, ret>>

\* the oldest timer of copyReport fires, 1200 ms after it was set
RestoreReason ==
    /\ tasks.timers # <<>>
    /\ ui' = [ui EXCEPT !.reason = Head(tasks.timers)]
    /\ tasks' = [tasks EXCEPT !.timers = Tail(@)]
    /\ call' = NoCall
    /\ UNCHANGED <<state, inputs, ret>>

Init ==
    /\ state = BootState
    /\ inputs = NoInputs
    /\ ui = BootUi
    /\ call = NoCall
    /\ ret = Pending
    /\ tasks = NoTasks

Next ==
    \/ TypeDecimal \/ TypeBinary \/ TypeString
    \/ SetInputMode \/ ChangeCharsetProfile \/ ChangeEncodingMode
    \/ ToggleWrap \/ ToggleLabels \/ ToggleHighlight
    \/ Evaluate
    \/ CopyReport \/ ClipboardWritten \/ ClipboardRefused \/ RestoreReason

Spec == Init /\ [][Next]_vars

\* the page without the copy button and the label and highlight toggles
NextPage ==
    \/ TypeDecimal \/ TypeBinary \/ TypeString
    \/ SetInputMode \/ ChangeCharsetProfile \/ ChangeEncodingMode
    \/ ToggleWrap
    \/ Evaluate

SpecPage == Init /\ [][NextPage]_vars

\* the copy button on a page that stays in decimal mode
NextCopy ==
    \/ TypeDecimal
    \/ Evaluate
    \/ CopyReport \/ ClipboardWritten \/ ClipboardRefused \/ RestoreReason

SpecCopy == Init /\ [][NextCopy]_vars

-----------------------------------------------------------------------------
(* Harnesses: one call of one function on drawn arguments, the page idle *)

\* tokenizeDecimal7 on decimal texts of '0' and '9'
InitTok ==
    /\ PageIdle
    /\ \E t \in SeqsOf({48, 57}, 1, MaxTextLen) :
          call = [fn |-> "tokenizeDecimal7", decimalString |-> t]
    /\ ret = Pending

CallTokenize ==
    /\ ret = Pending
    /\ ret' = <<"returned", tokenizeDecimal7(call.decimalString)>>
    /\ UNCHANGED call /\ PageUnchanged

SpecTok == InitTok /\ [][CallTokenize]_vars

\* areValidColorIndexes on streams around both bounds
InitRange ==
    /\ PageIdle
    /\ \E t \in SeqsOf({0, 1, 2, 16777215, 16777216, 16777217}, 0, MaxRangeLen) :
          call = [fn |-> "areValidColorIndexes", indexes |-> t]
    /\ ret = Pending

CallRange ==
    /\ ret = Pending
    /\ ret' = <<"returned", areValidColorIndexes(call.indexes)>>
    /\ UNCHANGED call /\ PageUnchanged

SpecRange == InitRange /\ [][CallRange]_vars

\* adjacencyConflicts on streams of 1 and 2 of any count, and on the square
\* grids of 1, 2 and 3
InitAdj ==
    /\ PageIdle
    /\ \E t \in SeqsOf(1..2, 0, MaxCells)
                  \cup UNION {[1..(m * m) -> 1..3] : m \in {k \in 1..MaxCells : k * k <= MaxCells}},
          wrap \in BOOLEAN :
          call = [fn |-> "adjacencyConflicts", indexes |-> t, wrap |-> wrap]
    /\ ret = Pending

CallAdjacency ==
    /\ ret = Pending
    /\ ret' = <<"returned", adjacencyConflicts(call.indexes, call.wrap)>>
    /\ UNCHANGED call /\ PageUnchanged

SpecAdj == InitAdj /\ [][CallAdjacency]_vars

\* buildHexSequence on two tokens: small indexes and those around the powers
\* of 16
HexSamples ==
    (1..MaxSmallIndex) \cup {255, 256, 257, 4096, 4097, 65536, 65537, 1048576, 1048577,
                            16777215, 16777216}

InitHex ==
    /\ PageIdle
    /\ \E a, b \in HexSamples : call = [fn |-> "buildHexSequence", indexes |-> <<a, b>>]
    /\ ret = Pending

CallHex ==
    /\ ret = Pending
    /\ ret' = <<"returned", buildHexSequence(call.indexes)>>
    /\ UNCHANGED call /\ PageUnchanged

SpecHex == InitHex /\ [][CallHex]_vars

\* the two text encoders on a pair of strings of ' ' and 'a', over every
\* duplicate-free table of ' ', 'a' and 'b'
EncTables == {c \in SeqsOf({32, 97, 98}, 1, 3) : Cardinality(Range(c)) = Len(c)}

InitEnc ==
    /\ PageIdle
    /\ \E fn \in {"encodeStringClassic", "encodeStringBijective"}, c \in EncTables,
          s, t \in SeqsOf({32, 97}, 0, MaxStrLen) :
          call = [fn |-> fn, charsetArr |-> c, s |-> s, t |-> t]
    /\ ret = Pending

CallEncodeClassic ==
    /\ call.fn = "encodeStringClassic"
    /\ \E map \in {buildCharIndexMap(call.charsetArr)} :
          /\ ret = Pending
          /\ ret' = <<"returned", <<encodeStringClassic(call.s, call.charsetArr, map),
                                    encodeStringClassic(call.t, call.charsetArr, map)>> >>
          /\ UNCHANGED call /\ PageUnchanged

CallEncodeBijective ==
    /\ call.fn = "encodeStringBijective"
    /\ \E map \in {buildCharIndexMap(call.charsetArr)} :
          /\ ret = Pending
          /\ ret' = <<"returned", <<encodeStringBijective(call.s, call.charsetArr, map),
                                    encodeStringBijective(call.t, call.charsetArr, map)>> >>
          /\ UNCHANGED call /\ PageUnchanged

NextEnc == CallEncodeClassic \/ CallEncodeBijective

SpecEnc == InitEnc /\ [][NextEnc]_vars

\* generateCharsetFromConfig and buildCharIndexMap, as ensureCharsetReady calls
\* them, on configs of blocks around tab and newline; the block 65544..65546
\* gives the code units 8..10 again
CharsetBlocks == ((8..11) \X (8..11)) \cup {<<65544, 65546>>}

InitCharset ==
    /\ PageIdle
    /\ \E config \in SeqsOf(CharsetBlocks, 0, MaxBlocks) :
          call = [fn |-> "generateCharsetFromConfig", config |-> config]
    /\ ret = Pending

CallCharset ==
    /\ ret = Pending
    /\ \E charsetArr \in {generateCharsetFromConfig(call.config)} :
          ret' = <<"returned", [charsetArr |-> charsetArr,
                                charToIdx |-> buildCharIndexMap(charsetArr)]>>
    /\ UNCHANGED call /\ PageUnchanged

SpecCharset == InitCharset /\ [][CallCharset]_vars

-----------------------------------------------------------------------------
(* The rules, stated on a token stream without the code's helpers *)

\* n = m * m for some integer m >= 1
IsSquareCount(n) == \E m \in 1..n : m * m = n
SideOf(n) == CHOOSE m \in 1..n : m * m = n

\* every token is in 1..16^6
AllInRange(t) == \A i \in 1..Len(t) : 1 <= t[i] /\ t[i] <= 16777216

\* cells i # j (0-based, row-major) of an m x m grid are orthogonal neighbours;
\* with wrap the grid is a torus
Adjacent(i, j, m, wrap) ==
    LET ri == i \div m
        ci == i % m
        rj == j \div m
        cj == j % m
        next(a, b) == a + 1 = b \/ b + 1 = a \/ (wrap /\ {a, b} = {0, m - 1})
    IN  /\ i # j
        /\ \/ ri = rj /\ next(ci, cj)
           \/ ci = cj /\ next(ri, rj)

\* the cells that hold the value of one of their neighbours
ConflictCells(t, wrap) ==
    LET m == SideOf(Len(t))
    IN  {i \in 0..(Len(t) - 1) :
            \E j \in 0..(Len(t) - 1) : Adjacent(i, j, m, wrap) /\ t[i + 1] = t[j + 1]}

\* the evaluation ended with a verdict, and its locals
Returned1 == ret[1] = "returned"
Locals == ret[2]

-----------------------------------------------------------------------------
(* C1 *)

\* C1: evaluate reports ACCEPT iff the shape, range and adjacency checks all
\* pass; otherwise REJECT with the reason of the first failing check in the
\* order shape, range, adjacency.
C1_VerdictByPriority ==
    Returned1 =>
        LET t == Locals.tokens
            shape == IsSquareCount(Len(t))
            rng == AllInRange(t)
            adjOk == ConflictCells(t, inputs.wrap) = {}
        IN  /\ ui.pill.text = "ACCEPT" <=> (shape /\ rng /\ adjOk)
            /\ ui.pill.text = "ACCEPT" => ui.reason = <<"All rules satisfied", -1>>
            /\ ui.pill.text # "ACCEPT" =>
                  /\ ui.pill.text = "REJECT"
                  /\ ui.reason =
                        <<IF ~shape THEN "Not a perfect square tile count"
                          ELSE IF ~rng THEN "One or more tokens out of range"
                          ELSE "Adjacent tile conflict(s)", -1>>

\* a stream that fails both shape and range was rejected with the shape reason
C1_Witness ==
    /\ Returned1
    /\ ~IsSquareCount(Len(Locals.tokens))
    /\ ~AllInRange(Locals.tokens)
    /\ ui.pill.text = "REJECT"
    /\ ui.reason = <<"Not a perfect square tile count", -1>>

-----------------------------------------------------------------------------
(* C3 *)

\* C3: the shape check passes iff the token count is m * m for an integer
\* m >= 1; the reported grid side is that m when it passes and 0 when it fails.
C3_ShapeAndSide ==
    Returned1 =>
        LET n == Len(Locals.tokens)
        IN  /\ Locals.squareOk <=> IsSquareCount(n)
            /\ ui.dotSquare = (IF IsSquareCount(n) THEN "good" ELSE "bad")
            /\ IsSquareCount(n) =>
                  /\ Locals.m = SideOf(n)
                  /\ ui.ruleSquare = <<"OK", n, SideOf(n), SideOf(n)>>
                  /\ ui.outGrid = <<"tiles", n, SideOf(n), SideOf(n)>>
            /\ ~IsSquareCount(n) =>
                  /\ Locals.m = 0
                  /\ Locals.adj.m = 0
                  /\ ui.ruleSquare = <<"FAIL", n>>
                  /\ ui.outGrid = Dash

\* a stream of 5 tokens failed the shape check and reported side 0
C3_Witness ==
    /\ Returned1
    /\ Len(Locals.tokens) = 5
    /\ ~Locals.squareOk
    /\ Locals.m = 0

-----------------------------------------------------------------------------
(* C6 *)

\* C6: when the shape check or the range check fails, adjacencyConflicts is not
\* called, the conflict set is empty and the adjacency result is not reported
\* as passed.
C6_AdjacencyShortCircuit ==
    (Returned1 /\ ~(IsSquareCount(Len(Locals.tokens)) /\ AllInRange(Locals.tokens))) =>
        /\ Locals.adj.reason = NotEvaluatedReason
        /\ Locals.adj.conflicts = <<>>
        /\ ~Locals.adj.ok
        /\ ui.ruleAdj = Dash
        /\ ui.dotAdj = "warn"
        /\ ui.outAdj = Dash
        /\ ui.report[2].adjacency = "N/A"
        /\ \A k \in 1..Len(ui.grid.tiles) : ~ui.grid.tiles[k].isConflict

\* a square stream with an out-of-range token and an equal adjacent pair: the
\* adjacency check would have found conflicts and was skipped
C6_Witness ==
    /\ Returned1
    /\ IsSquareCount(Len(Locals.tokens))
    /\ ~AllInRange(Locals.tokens)
    /\ ConflictCells(Locals.tokens, inputs.wrap) # {}
    /\ Locals.adj.reason = NotEvaluatedReason
    /\ Locals.adj.conflicts = <<>>

-----------------------------------------------------------------------------
(* C10 *)

\* s is white space, then one or more characters of `allowed`, then white space
IsPaddedRun(s, allowed) ==
    \E nb \in {{k \in 1..Len(s) : ~IsWhiteSpace(s[k])}} :
        /\ nb # {}
        /\ \A k \in 1..Len(s) :
              ((\E a \in nb : a <= k) /\ (\E b \in nb : k <= b)) => s[k] \in allowed

\* the number a text of digits denotes in the radix
RECURSIVE NumberOf(_, _)
NumberOf(digits, radix) ==
    IF digits = <<>> THEN 0
    ELSE NumberOf(SubSeq(digits, 1, Len(digits) - 1), radix) * radix
         + (digits[Len(digits)] - 48)

\* the characters of s that are not white space, in order
NonBlank(s) == SelectSeq(s, LAMBDA ch : ~IsWhiteSpace(ch))

\* the text has no leading zero, or is "0"
IsCanonicalDecimal(d) == d = <<48>> \/ (d # <<>> /\ d[1] # 48)

\* C10: decimal-parse succeeds iff the trimmed input is a non-empty digit
\* string, binary-parse iff it is a non-empty 0/1 string; a failure is the
\* input-format error and produces no tokens and no verdict; a success yields
\* the numeric value, so the decimal text that is tokenized has no leading zeros.
C10_ParseFormat ==
    (ret[1] # "pending" /\ state.inputMode \in {"decimal", "binary"}) =>
        LET dec == state.inputMode = "decimal"
            s == IF dec THEN inputs.decimal ELSE inputs.binary
            ok == IsPaddedRun(s, IF dec THEN 48..57 ELSE {48, 49})
            msg == <<IF dec THEN "Decimal input must contain only digits 0-9."
                     ELSE "Binary input must contain only 0 and 1.", -1>>
        IN  /\ ok <=> ret[1] = "returned"
            /\ ~ok =>
                  /\ ret = <<"thrown", msg>>
                  /\ ui.pill.text = "Error"
                  /\ ui.reason = msg
                  /\ ui.outBase10 = Markup
                  /\ ui.outTokens = Markup
                  /\ ui.grid.tiles = <<>>
            /\ ok =>
                  /\ ui.pill.text \in {"ACCEPT", "REJECT"}
                  /\ ui.outBase10 = <<"text", Locals.base10>>
                  /\ IsCanonicalDecimal(Locals.base10)
                  /\ \E core \in {NonBlank(s)} :
                        /\ Len(core) <= 9 =>
                              NumberOf(Locals.base10, 10)
                                  = NumberOf(core, IF dec THEN 10 ELSE 2)
                        /\ dec =>
                              \E z \in 0..Len(core) :
                                 /\ \A k \in 1..z : core[k] = 48
                                 /\ z < Len(core) => core[z + 1] # 48
                                 /\ Locals.base10 =
                                       IF z = Len(core) THEN <<48>>
                                       ELSE SubSeq(core, z + 1, Len(core))

\* the decimal input " 07" was parsed to 7 and "7" was tokenized
C10_Witness ==
    /\ state.inputMode = "decimal"
    /\ inputs.decimal = <<32, 48, 55>>
    /\ Returned1
    /\ ui.outBase10 = <<"text", <<55>>>>
    /\ Locals.tokens = <<7>>

-----------------------------------------------------------------------------
(* C2 *)

\* the harness call of fn has returned, and its result
Done(fn) == call.fn = fn /\ ret[1] = "returned"
Result == ret[2]

\* C2: for a text of L >= 1 digits the tokenizer yields ceil(L / 7) tokens;
\* token i is the base-10 value of characters 7i .. min(7i + 7, L) - 1, so
\* every token but the last covers 7 characters and the last covers
\* L - 7 * (count - 1), between 1 and 7.
C2_TokenizerWindows ==
    Done("tokenizeDecimal7") =>
        LET s == call.decimalString
            L == Len(s)
            n == Len(Result)
        IN  /\ n * 7 >= L /\ (n - 1) * 7 < L
            /\ \A i \in 0..(n - 1) :
                  Result[i + 1] = NumberOf(SubSeq(s, 7 * i + 1, Min(7 * i + 7, L)), 10)
            /\ L - 7 * (n - 1) \in 1..7

\* a 15-digit text gives three tokens, the last from one character
C2_Witness ==
    /\ Done("tokenizeDecimal7")
    /\ call.decimalString = <<57, 48, 48, 48, 48, 48, 48, 48, 48, 48, 48, 48, 48, 57, 57>>
    /\ Result = <<9000000, 9, 9>>

-----------------------------------------------------------------------------
(* C4 *)

InRange(v) == 1 <= v /\ v <= 16777216

\* C4: the range check lists exactly the tokens outside 1..16^6, each with
\* its 0-based index and value, in increasing index order, and passes iff the
\* list is empty; so a token 0 is always listed, and the tokens 1 and 16^6
\* never are.
C4_RangeFailures ==
    Done("areValidColorIndexes") =>
        LET t == call.indexes
            bad == Result.bad
        IN  /\ \A j \in 1..Len(bad) :
                  /\ bad[j].i \in 0..(Len(t) - 1)
                  /\ bad[j].v = t[bad[j].i + 1]
                  /\ ~InRange(bad[j].v)
            /\ \A j \in 1..(Len(bad) - 1) : bad[j].i < bad[j + 1].i
            /\ \A k \in 0..(Len(t) - 1) :
                  /\ ~InRange(t[k + 1]) => \E j \in 1..Len(bad) : bad[j].i = k
                  /\ t[k + 1] = 0 => \E j \in 1..Len(bad) : bad[j] = [i |-> k, v |-> 0]
                  /\ t[k + 1] \in {1, 16777216} => \A j \in 1..Len(bad) : bad[j].i # k
            /\ Result.ok <=> bad = <<>>

\* a stream with both bounds and a violation on each side
C4_Witness ==
    /\ Done("areValidColorIndexes")
    /\ call.indexes = <<1, 0, 16777216, 16777217>>
    /\ Result.bad = <<[i |-> 1, v |-> 0], [i |-> 3, v |-> 16777217]>>
    /\ ~Result.ok

-----------------------------------------------------------------------------
(* C5 *)

\* C5: the conflict set is symmetric: a cell that is in it because it equals
\* an orthogonal neighbour has that neighbour in it as well, so a non-empty
\* conflict set has at least two cells.
C5_ConflictSymmetric ==
    (Done("adjacencyConflicts") /\ IsSquareCount(Len(call.indexes))) =>
        LET t == call.indexes
            m == SideOf(Len(t))
            cells == 0..(Len(t) - 1)
            C == Range(Result.conflicts)
        IN  /\ \A i \in C : \A j \in cells :
                  (Adjacent(i, j, m, call.wrap) /\ t[i + 1] = t[j + 1]) => j \in C
            /\ \A i \in C : \E j \in cells : Adjacent(i, j, m, call.wrap) /\ t[i + 1] = t[j + 1]
            /\ C # {} => Cardinality(C) >= 2

\* on the torus cell 2 conflicts with cell 0 across the edge and with cell 5
\* below it
C5_Witness ==
    /\ Done("adjacencyConflicts")
    /\ call.wrap
    /\ call.indexes = <<1, 2, 1, 2, 3, 1, 3, 1, 2>>
    /\ Result.conflicts = <<0, 2, 5>>

-----------------------------------------------------------------------------
(* C7 *)

\* every character of the string is a symbol of the table
OverTable(str, charsetArr) == \A i \in 1..Len(str) : str[i] \in Range(charsetArr)

\* the string has a character that is not white space
HasInk(str) == \E i \in 1..Len(str) : ~IsWhiteSpace(str[i])

\* C7 as stated: encodeStringBijective gives any two distinct non-empty
\* strings over the table different results. Refuted: two distinct strings
\* of white-space symbols only are both rejected with the same error, and
\* neither is encoded to an integer.
C7_AsStated ==
    (Done("encodeStringBijective")
        /\ call.s # <<>> /\ call.t # <<>> /\ call.s # call.t
        /\ OverTable(call.s, call.charsetArr) /\ OverTable(call.t, call.charsetArr)) =>
        Result[1] # Result[2]

\* C7: any two distinct strings over the table that each hold a character
\* other than white space are encoded by encodeStringBijective to different
\* integers; a non-empty string of white-space symbols only is rejected with
\* the empty-input error.
C7_BijectiveInjective ==
    (Done("encodeStringBijective")
        /\ OverTable(call.s, call.charsetArr) /\ OverTable(call.t, call.charsetArr)) =>
        /\ (HasInk(call.s) /\ HasInk(call.t) /\ call.s # call.t) =>
              /\ ~Result[1].thrown /\ ~Result[2].thrown
              /\ Result[1].value # Result[2].value
        /\ ~HasInk(call.s) => (Result[1].thrown /\ Result[1].message = <<EmptyInputMsg, -1>>)

\* " a" and "a" over the table (' ', 'a') are encoded to 4 and 2
C7_Witness ==
    /\ Done("encodeStringBijective")
    /\ call.charsetArr = <<32, 97>>
    /\ call.s = <<32, 97>> /\ call.t = <<97>>
    /\ Result[1] = Returned(<<4>>) /\ Result[2] = Returned(<<2>>)

-----------------------------------------------------------------------------
(* C8 *)

\* C8: with z the symbol at index 0 and s a string the encoder accepts,
\* encodeStringClassic(z + s) = encodeStringClassic(s), whereas
\* encodeStringBijective(z + s) # encodeStringBijective(s).
C8_LeadingZeroSymbol ==
    ((Done("encodeStringClassic") \/ Done("encodeStringBijective"))
        /\ call.t = <<call.charsetArr[1]>> \o call.s
        /\ ~Result[1].thrown) =>
        /\ ~Result[2].thrown
        /\ call.fn = "encodeStringClassic" => Result[2].value = Result[1].value
        /\ call.fn = "encodeStringBijective" => Result[2].value # Result[1].value

\* classic encodes "a" and " a" over the table (' ', 'a') both to 1
C8_Witness ==
    /\ Done("encodeStringClassic")
    /\ call.charsetArr = <<32, 97>>
    /\ call.s = <<97>> /\ call.t = <<32, 97>>
    /\ Result[1] = Returned(<<1>>) /\ Result[2] = Returned(<<1>>)

-----------------------------------------------------------------------------
(* C9 *)

\* the characters '0'..'9' and 'a'..'f'
LowerHexDigits == (48..57) \cup (97..102)

\* the number a text of lowercase hex digits denotes
RECURSIVE HexNumberOf(_)
HexNumberOf(digits) ==
    IF digits = <<>> THEN 0
    ELSE LET ch == digits[Len(digits)]
         IN  HexNumberOf(SubSeq(digits, 1, Len(digits) - 1)) * 16
             + (IF ch <= 57 THEN ch - 48 ELSE ch - 87)

\* C9 as stated: colorize(v) is exactly 6 lowercase hex digits denoting v - 1.
\* Refuted: the string starts with '#', so it has 7 characters.
C9_AsStated ==
    Done("buildHexSequence") =>
        \A k \in 1..2 :
            /\ Len(Result[k]) = 6
            /\ \A i \in 1..Len(Result[k]) : Result[k][i] \in LowerHexDigits
            /\ HexNumberOf(Result[k]) = call.indexes[k] - 1

\* C9: for v in 1..16^6, colorize(v) is '#' followed by exactly 6 lowercase
\* hex digits denoting v - 1, so colorize(1) = "#000000",
\* colorize(16777216) = "#ffffff", and colorize(a) = colorize(b) implies a = b.
C9_ColorizerBijection ==
    Done("buildHexSequence") =>
        /\ \A k \in 1..2 :
              /\ Len(Result[k]) = 7
              /\ Result[k][1] = 35
              /\ \A i \in 2..7 : Result[k][i] \in LowerHexDigits
              /\ HexNumberOf(Tail(Result[k])) = call.indexes[k] - 1
              /\ call.indexes[k] = 1 => Result[k] = <<35, 48, 48, 48, 48, 48, 48>>
              /\ call.indexes[k] = 16777216 => Result[k] = <<35, 102, 102, 102, 102, 102, 102>>
        /\ Result[1] = Result[2] => call.indexes[1] = call.indexes[2]

\* both ends of the range in one call
C9_Witness ==
    /\ Done("buildHexSequence")
    /\ call.indexes = <<1, 16777216>>
    /\ Result = << <<35, 48, 48, 48, 48, 48, 48>>, <<35, 102, 102, 102, 102, 102, 102>> >>

-----------------------------------------------------------------------------
(* C11 *)

\* the first character of the string that is not a symbol of the table
FirstAbsent(str, charsetArr) ==
    str[Min2({i \in 1..Len(str) : str[i] \notin Range(charsetArr)})]

\* C11: both text encoders throw the empty-input error on an empty or
\* all-white-space string, also when its white space is in the symbol table,
\* and throw the charset-membership error, naming the first absent character,
\* when the string is not blank and has a character absent from the table; in
\* both cases no integer is returned, and in every other case one is.
C11_EncoderErrors ==
    (Done("encodeStringClassic") \/ Done("encodeStringBijective")) =>
        \A k \in 1..2 :
            LET str == IF k = 1 THEN call.s ELSE call.t
                r == Result[k]
            IN  /\ ~HasInk(str) => r = Thrown(EmptyInputMsg, -1)
                /\ (HasInk(str) /\ ~OverTable(str, call.charsetArr)) =>
                      r = Thrown(NotInCharsetMsg, FirstAbsent(str, call.charsetArr))
                /\ (HasInk(str) /\ OverTable(str, call.charsetArr)) => ~r.thrown
                /\ r.thrown => r.value = <<>>

\* over the table (' ', 'b'): "  " is blank though made of symbols, and " a"
\* has the absent 'a'
C11_Witness ==
    /\ Done("encodeStringClassic")
    /\ call.charsetArr = <<32, 98>>
    /\ call.s = <<32, 32>> /\ call.t = <<32, 97>>
    /\ Result[1] = Thrown(EmptyInputMsg, -1)
    /\ Result[2] = Thrown(NotInCharsetMsg, 97)

-----------------------------------------------------------------------------
(* C12 *)

\* the messages of the three input errors
InputErrorTexts == {DecimalFormatMsg, BinaryFormatMsg, EmptyInputMsg, NotInCharsetMsg}

\* the pill, the rule rows, the grid and the report show no verdict
NoVerdictShown ==
    /\ ui.pill.text \notin {"ACCEPT", "REJECT"}
    /\ ui.ruleSquare = Dash /\ ui.ruleRange = Dash /\ ui.ruleAdj = Dash
    /\ ui.dotSquare = "warn" /\ ui.dotRange = "warn" /\ ui.dotAdj = "warn"
    /\ ui.grid.tiles = <<>> /\ ui.grid.hint = <<"Evaluate to render a grid.">>
    /\ ui.report[1] # "report"

\* C12: an evaluation ends as ACCEPT, REJECT or Error. It is Error only when
\* the encoder threw one of the input errors; a failed shape, range or
\* adjacency check gives REJECT with its reason, never Error. After an Error
\* the rule rows and dots are in the not-evaluated state, the grid is empty,
\* and neither the pill nor the report shows a verdict, whatever was
\* evaluated before.
C12_ThreeOutcomes ==
    /\ ret[1] = "pending" => ui.pill.text = "Not evaluated"
    /\ ret[1] = "thrown" =>
          /\ ret[2][1] \in InputErrorTexts
          /\ ui.pill = [kind |-> "warn", text |-> "Error"]
          /\ ui.reason = ret[2]
          /\ ui.report = <<"error", ret[2]>> /\ state.lastReport = ui.report
          /\ NoVerdictShown
    /\ ret[1] = "returned" =>
          LET x == ret[2]
              failed == ~IsSquareCount(Len(x.tokens)) \/ ~AllInRange(x.tokens)
                        \/ ConflictCells(x.tokens, x.wrap) # {}
          IN  /\ ui.pill.text = (IF failed THEN "REJECT" ELSE "ACCEPT")
              /\ failed => ui.reason[1] \in {"Not a perfect square tile count",
                                             "One or more tokens out of range",
                                             "Adjacent tile conflict(s)"}
              /\ ui.report[1] = "report"
              /\ ui.report[2].final = ui.pill.text

\* the empty string was evaluated after an evaluation that was rejected for
\* its shape: the flow outputs still show the two tokens, the rest is reset
C12_Witness ==
    /\ ret = <<"thrown", <<EmptyInputMsg, -1>> >>
    /\ ui.pill.text = "Error"
    /\ ui.outTokens = <<"lines", <<1000000, 1>> >>
    /\ NoVerdictShown

-----------------------------------------------------------------------------
(* C13 *)

\* the controls an evaluation in the mode may depend on, every other control
\* as on the booted page
CurrentControls(in, mode) ==
    [NoInputs EXCEPT
       !.wrap = in.wrap, !.labels = in.labels, !.highlight = in.highlight,
       !.decimal = IF mode = "decimal" THEN in.decimal ELSE <<>>,
       !.binary = IF mode = "binary" THEN in.binary ELSE <<>>,
       !.string = IF mode = "string" THEN in.string ELSE <<>>,
       !.charsetProfile = IF mode = "string" THEN in.charsetProfile ELSE "lite",
       !.encodingMode = IF mode = "string" THEN in.encodingMode ELSE "classic"]

\* what an evaluation writes whether it ends with a verdict or an error
VerdictShown(u) ==
    <<u.pill, u.reason, u.ruleSquare, u.ruleRange, u.ruleAdj,
      u.dotSquare, u.dotRange, u.dotAdj, u.grid, u.report>>

\* what only an evaluation that ends with a verdict writes
FlowShown(u) == <<u.outBase10, u.outTokens, u.outHex, u.outGrid, u.outAdj>>

\* C13: whatever was evaluated, typed, selected and toggled before, an
\* evaluation ends, and writes what it writes, as the same evaluation does on
\* the page as booted with the current mode, wrap flag and input text (and, in
\* string mode, profile and encoding): verdict, reason, tokens, grid side,
\* range failures, conflict cells and colors depend on nothing else. A string
\* evaluation uses the table of the selected profile.
C13_NoResidualState ==
    call.fn = "evaluate" =>
        LET mode == state.inputMode
            fresh == evaluate([BootState EXCEPT !.inputMode = mode],
                              CurrentControls(inputs, mode), BootUi)
        IN  /\ ret = fresh.ret
            /\ VerdictShown(ui) = VerdictShown(fresh.ui)
            /\ ret[1] = "returned" => FlowShown(ui) = FlowShown(fresh.ui)
            /\ state.lastReport = fresh.state.lastReport
            /\ mode = "string" =>
                  /\ state.charsetArr = inputs.charsetProfile
                  /\ state.charToIdx = inputs.charsetProfile
                  /\ state.charsetProfile = inputs.charsetProfile
                  /\ state.encodingMode = inputs.encodingMode

\* U+0100 was encoded with the full table and shown as the token 224; then the
\* lite profile was selected, and the next evaluation did not find U+0100
C13_Witness ==
    /\ call.fn = "evaluate"
    /\ state.inputMode = "string"
    /\ inputs.string = <<256>> /\ inputs.charsetProfile = "lite"
    /\ state.charsetArr = "lite"
    /\ ret = <<"thrown", <<NotInCharsetMsg, 256>> >>
    /\ ui.outTokens = <<"lines", <<224>> >>

-----------------------------------------------------------------------------
(* C14 *)

\* the symbols a config declares, in declaration order with repetitions, and
\* then newline and tab
Declared(config) ==
    Flatten([k \in 1..Len(config) |->
                [i \in 1..Max({0, config[k][2] - config[k][1] + 1}) |->
                    (config[k][1] + i - 1) % 65536]])
    \o <<10, 9>>

\* the first position of the symbol in the sequence
FirstAt(seq, ch) == Min2({i \in 1..Len(seq) : seq[i] = ch})

\* C14: whatever the config (overlapping or repeated blocks, blocks holding
\* newline or tab), the table has no duplicate symbol, holds exactly the
\* declared symbols and newline and tab, in the order of their first
\* declaration, and the map sends each symbol to its position:
\* charToIdx.get(charsetArr[i]) = i.
C14_SymbolTable ==
    Done("generateCharsetFromConfig") =>
        LET arr == Result.charsetArr
            map == Result.charToIdx
            decl == Declared(call.config)
        IN  /\ \A i, j \in 1..Len(arr) : arr[i] = arr[j] => i = j
            /\ 10 \in Range(arr) /\ 9 \in Range(arr)
            /\ Range(arr) = Range(decl)
            /\ \A i, j \in 1..Len(arr) :
                  i < j => FirstAt(decl, arr[i]) < FirstAt(decl, arr[j])
            /\ \A i \in 1..Len(arr) : mapHas(map, arr[i]) /\ mapGet(map, arr[i]) = i - 1
            /\ \A ch \in 0..12 : mapHas(map, ch) => ch \in Range(arr)

\* the blocks 9..11 and 8..10 overlap and hold tab and newline
C14_Witness ==
    /\ Done("generateCharsetFromConfig")
    /\ call.config = << <<9, 11>>, <<8, 10>> >>
    /\ Result.charsetArr = <<9, 10, 11, 8>>
    /\ Result.charToIdx = << <<9, 0>>, <<10, 1>>, <<11, 2>>, <<8, 3>> >>

-----------------------------------------------------------------------------
(* C15 *)

\* C15: on an m x m grid adjacencyConflicts returns, in ascending order and
\* without repetition, exactly the cells that hold the value of an orthogonal
\* neighbour, and passes iff there is none; without wrap the neighbours are
\* the in-grid left, right, up and down cells, with wrap and m > 1 the grid is
\* a torus.
C15_ExactConflictSet ==
    (Done("adjacencyConflicts") /\ IsSquareCount(Len(call.indexes))) =>
        LET t == call.indexes
            listed == Result.conflicts
        IN  /\ \A k \in 1..(Len(listed) - 1) : listed[k] < listed[k + 1]
            /\ Range(listed) = ConflictCells(t, call.wrap)
            /\ Result.ok <=> ConflictCells(t, call.wrap) = {}
            /\ Result.m * Result.m = Len(t)

\* the tokens 1, 1, 2, 3 without wrap: the cells 0 and 1 conflict
C15_Witness ==
    /\ Done("adjacencyConflicts")
    /\ ~call.wrap
    /\ call.indexes = <<1, 1, 2, 3>>
    /\ Result.conflicts = <<0, 1>>
    /\ ~Result.ok

-----------------------------------------------------------------------------
(* C16 *)

\* C16: an evaluation whose decimal text has 1 to 7 digits has one token; it
\* passes the shape check with m = 1, adjacencyConflicts passes it with wrap
\* on and with wrap off, and it is accepted iff the token is at least 1: a
\* token 0 is rejected with the range reason.
C16_SingleToken ==
    Returned1 =>
        LET x == Locals
        IN  /\ Len(x.base10) \in 1..7 <=> Len(x.tokens) = 1
            /\ Len(x.tokens) = 1 =>
                  /\ x.squareOk /\ x.m = 1
                  /\ ui.ruleSquare = <<"OK", 1, 1, 1>>
                  /\ \A w \in BOOLEAN :
                        LET a == adjacencyConflicts(x.tokens, w)
                        IN  a.ok /\ a.conflicts = <<>> /\ a.m = 1
                  /\ x.accepted <=> x.tokens[1] >= 1
                  /\ x.tokens[1] >= 1 =>
                        /\ x.adj.ok /\ x.adj.conflicts = <<>>
                        /\ ui.pill.text = "ACCEPT"
                  /\ x.tokens[1] < 1 =>
                        /\ ui.pill.text = "REJECT"
                        /\ ui.reason = <<"One or more tokens out of range", -1>>

\* the input "0" with wrap on
C16_Witness ==
    /\ Returned1
    /\ state.inputMode = "decimal" /\ inputs.decimal = <<48>> /\ inputs.wrap
    /\ Locals.tokens = <<0>>
    /\ Locals.squareOk
    /\ ui.pill.text = "REJECT"
    /\ ui.reason = <<"One or more tokens out of range", -1>>

-----------------------------------------------------------------------------
(* C17 *)

\* C17: every token of an evaluation is at most 9,999,999, below 16^6, so the
\* range failures are exactly the tokens 0, each with its index, and the
\* range check passes iff no token is 0.
C17_OnlyZeroFails ==
    Returned1 =>
        LET t == Locals.tokens
            bad == Locals.range.bad
            zeros == {k \in 0..(Len(t) - 1) : t[k + 1] = 0}
        IN  /\ \A k \in 1..Len(t) : 0 <= t[k] /\ t[k] <= 9999999
            /\ 9999999 < 16777216
            /\ {bad[j].i : j \in 1..Len(bad)} = zeros
            /\ Len(bad) = Cardinality(zeros)
            /\ \A j \in 1..Len(bad) : bad[j].v = 0
            /\ Locals.range.ok <=> zeros = {}

\* "99999990000000": the largest token passes, the token 0 fails
C17_Witness ==
    /\ Returned1
    /\ Locals.tokens = <<9999999, 0>>
    /\ Locals.range.bad = <<[i |-> 1, v |-> 0]>>

-----------------------------------------------------------------------------
(* C18 *)

\* the reason the most recent evaluation wrote; before the first evaluation,
\* the reason the page booted with
LastEvaluationReason ==
    IF ret[1] = "pending" THEN <<"Enter a state and click Evaluate.", -1>>
    ELSE IF ret[1] = "thrown" THEN ret[2]
    ELSE IF ~IsSquareCount(Len(Locals.tokens))
         THEN <<"Not a perfect square tile count", -1>>
    ELSE IF ~AllInRange(Locals.tokens) THEN <<"One or more tokens out of range", -1>>
    ELSE IF ConflictCells(Locals.tokens, Locals.wrap) # {}
         THEN <<"Adjacent tile conflict(s)", -1>>
    ELSE <<"All rules satisfied", -1>>

\* C18 as stated: once no clipboard write and no restore timer is pending,
\* #accept-reason shows the reason of the most recent evaluation. Refuted: a
\* timer set before an evaluation restores the reason of the evaluation
\* before it, and the timer of a second copy restores 'Report copied to
\* clipboard.'
C18_AsStated ==
    (tasks.writes = 0 /\ tasks.timers = <<>>) => ui.reason = LastEvaluationReason

=============================================================================
